---------------------------- MODULE Spec2Model ----------------------------
(***************************************************************************)
(* Model of the download-link issuance handler, src/lambda/auth-handler.py *)
(* (lambda_handler, generate_download_page, generate_error_page).          *)
(*                                                                         *)
(* A text (Python str) is a sequence of symbols.  The symbols of a value   *)
(* that the code slices, splits or parses are its characters; a literal    *)
(* piece of an f-string template is one symbol.  An optional value (a key  *)
(* of a dict or of os.environ that may be missing, Python's None) is the   *)
(* empty tuple None or the one-element tuple Some(v).                      *)
(***************************************************************************)
EXTENDS Integers, Sequences, FiniteSets, TLC

VARIABLES pc, event, environ, config, clientRes, probeRes, signRes,
          calls, response, exception, log

vars == <<pc, event, environ, config, clientRes, probeRes, signRes,
          calls, response, exception, log>>

(***************************************************************************)
(* Bounds.                                                                 *)
(***************************************************************************)
\* Number of invocations that the hosting platform runs side by side in the
\* specification SpecMulti.
NumInvocations == 2

Invocations == 1..NumInvocations

(***************************************************************************)
(* Optional values and texts.                                              *)
(***************************************************************************)
None == <<>>
Some(v) == <<v>>
IsSome(o) == o # <<>>
Get(o) == o[1]

Min(a, b) == IF a <= b THEN a ELSE b

\* s[:n] for n >= 0
Prefix(s, n) == SubSeq(s, 1, Min(n, Len(s)))

\* t in s (contiguous occurrence)
Contains(s, t) ==
    \E k \in 0..(Len(s) - Len(t)) : SubSeq(s, k + 1, k + Len(t)) = t

\* s.count(t) for a non-empty t that cannot overlap itself
Count(s, t) ==
    Cardinality({k \in 0..(Len(s) - Len(t)) : SubSeq(s, k + 1, k + Len(t)) = t})

Digit == {"0", "1", "2", "3", "4", "5", "6", "7", "8", "9"}

DigitVal(c) ==
    CASE c = "0" -> 0 [] c = "1" -> 1 [] c = "2" -> 2 [] c = "3" -> 3
      [] c = "4" -> 4 [] c = "5" -> 5 [] c = "6" -> 6 [] c = "7" -> 7
      [] c = "8" -> 8 [] c = "9" -> 9

DigitChar(d) ==
    CASE d = 0 -> "0" [] d = 1 -> "1" [] d = 2 -> "2" [] d = 3 -> "3"
      [] d = 4 -> "4" [] d = 5 -> "5" [] d = 6 -> "6" [] d = 7 -> "7"
      [] d = 8 -> "8" [] d = 9 -> "9"

RECURSIVE LStrip(_)
LStrip(s) == IF s # <<>> /\ Head(s) = " " THEN LStrip(Tail(s)) ELSE s

RECURSIVE RStrip(_)
RStrip(s) ==
    IF s # <<>> /\ s[Len(s)] = " " THEN RStrip(SubSeq(s, 1, Len(s) - 1)) ELSE s

RECURSIVE DigitsValue(_)
DigitsValue(d) ==
    IF d = <<>> THEN 0
    ELSE 10 * DigitsValue(SubSeq(d, 1, Len(d) - 1)) + DigitVal(d[Len(d)])

\* int(s): surrounding blanks are ignored, an optional sign, then one or more
\* decimal digits; anything else raises ValueError (ok = FALSE).
PyInt(s) ==
    LET t == RStrip(LStrip(s))
        signed == t # <<>> /\ Head(t) \in {"+", "-"}
        d == IF signed THEN Tail(t) ELSE t
        wellFormed == d # <<>> /\ \A k \in 1..Len(d) : d[k] \in Digit
    IN  IF wellFormed
        THEN [ok |-> TRUE,
              val |-> IF signed /\ Head(t) = "-" THEN 0 - DigitsValue(d)
                      ELSE DigitsValue(d)]
        ELSE [ok |-> FALSE, val |-> 0]

RECURSIVE NatStr(_)
NatStr(n) ==
    IF n < 10 THEN <<DigitChar(n)>>
    ELSE NatStr(n \div 10) \o <<DigitChar(n % 10)>>

\* str(n) / the f-string conversion of an int
PyStr(n) == IF n < 0 THEN <<"-">> \o NatStr(0 - n) ELSE NatStr(n)

\* Mutant of PySplit: s.split(sep, 1), which splits at the first separator only
PySplit_once(s, sep) ==
    IF \E k \in 1..Len(s) : s[k] = sep
    THEN LET k == CHOOSE j \in 1..Len(s) :
                     s[j] = sep /\ \A m \in 1..(j - 1) : s[m] # sep
         IN  <<SubSeq(s, 1, k - 1), SubSeq(s, k + 1, Len(s))>>
    ELSE <<s>>

\* s.split(sep) for a one-symbol separator
RECURSIVE PySplit(_, _)
PySplit(s, sep) ==
    IF \E k \in 1..Len(s) : s[k] = sep
    THEN LET k == CHOOSE j \in 1..Len(s) :
                     s[j] = sep /\ \A m \in 1..(j - 1) : s[m] # sep
         IN  <<SubSeq(s, 1, k - 1)>> \o PySplit(SubSeq(s, k + 1, Len(s)), sep)
    ELSE <<s>>


(***************************************************************************)
(* The two HTML templates.                                                 *)
(***************************************************************************)
\* Mutant of generate_download_page: the plural is chosen by expiry_hours > 1.
generate_download_page_plural(download_url, expiry_seconds, app_name, object_key) ==
    LET expiry_hours == expiry_seconds \div 3600
        parts == PySplit(object_key, "/")
        file_name == parts[Len(parts)]
    IN  <<"<!DOCTYPE html><html lang=\"en\"><head>",
          "<title>Secure Download - ">> \o app_name \o <<"</title>",
          "<meta http-equiv=\"refresh\" content=\"3;url=">> \o download_url
        \o <<"\">",
             "<style>...</style><script>...updateCountdown...</script></head>",
             "<body><div class=\"container\">",
             "<div class=\"app-name\">">> \o app_name \o <<"</div>",
             "<h1>Authentication Successful!</h1>",
             "<div class=\"file-info\"><strong>File:</strong> ">>
        \o file_name
        \o <<"</div>", "<a href=\"">> \o download_url
        \o <<"\" class=\"download-link\">Download Securely</a>",
             "<div class=\"info\">",
             "<p>This download link will expire in <strong>">>
        \o PyStr(expiry_hours) \o <<" hour">>
        \o (IF expiry_hours > 1 THEN <<"s">> ELSE <<>>)
        \o <<"</strong> for your security.</p>", "</div></div></body></html>">>

\* generate_download_page(download_url, expiry_seconds, app_name, object_key)
generate_download_page(download_url, expiry_seconds, app_name, object_key) ==
    LET expiry_hours == expiry_seconds \div 3600
        parts == PySplit(object_key, "/")
        file_name == parts[Len(parts)]
    IN  <<"<!DOCTYPE html><html lang=\"en\"><head>",
          "<title>Secure Download - ">> \o app_name \o <<"</title>",
          "<meta http-equiv=\"refresh\" content=\"3;url=">> \o download_url
        \o <<"\">",
             "<style>...</style><script>...updateCountdown...</script></head>",
             "<body><div class=\"container\">",
             "<div class=\"app-name\">">> \o app_name \o <<"</div>",
             "<h1>Authentication Successful!</h1>",
             "<div class=\"file-info\"><strong>File:</strong> ">>
        \o file_name
        \o <<"</div>", "<a href=\"">> \o download_url
        \o <<"\" class=\"download-link\">Download Securely</a>",
             "<div class=\"info\">",
             "<p>This download link will expire in <strong>">>
        \o PyStr(expiry_hours) \o <<" hour">>
        \o (IF expiry_hours # 1 THEN <<"s">> ELSE <<>>)
        \o <<"</strong> for your security.</p>", "</div></div></body></html>">>

\* Mutant of generate_error_page: the page shows a running incident number,
\* the count of the invocations answered so far.
generate_error_page_numbered(error_title, error_details, app_name) ==
    <<"<!DOCTYPE html><html lang=\"en\"><head>",
      "<title>Download Error - ">> \o app_name \o <<"</title>",
      "<style>...</style></head>", "<body><div class=\"container\">",
      "<div class=\"app-name\">">> \o app_name \o <<"</div>", "<h1>">>
    \o error_title
    \o <<"</h1>", "<div class=\"error-details\"><strong>Error Details:</strong><br>">>
    \o error_details
    \o <<"</div>", "Incident #">>
    \o PyStr(Cardinality({j \in Invocations : pc[j] = "returned"}))
    \o <<"<a href=\"javascript:window.location.reload();\">Try Again</a>",
         "<div class=\"support-info\">...</div></div></body></html>">>

\* generate_error_page(error_title, error_details, app_name)
generate_error_page(error_title, error_details, app_name) ==
    <<"<!DOCTYPE html><html lang=\"en\"><head>",
      "<title>Download Error - ">> \o app_name \o <<"</title>",
      "<style>...</style></head>", "<body><div class=\"container\">",
      "<div class=\"app-name\">">> \o app_name \o <<"</div>", "<h1>">>
    \o error_title
    \o <<"</h1>", "<div class=\"error-details\"><strong>Error Details:</strong><br>">>
    \o error_details
    \o <<"</div>", "<a href=\"javascript:window.location.reload();\">Try Again</a>",
         "<div class=\"support-info\">...</div></div></body></html>">>

(***************************************************************************)
(* Exceptions.  An exception has its class, its str() and, for a botocore  *)
(* ClientError, the parsed error response: a dict whose 'Error' entry, and *)
(* the 'Code' and 'Message' entries of that, may each be missing (the      *)
(* handler reads them with defaults at lines 89-90).                       *)
(***************************************************************************)
Exc(cls, text) == [cls |-> cls, response |-> None, str |-> text]

ClientError(error, text) ==
    [cls |-> "ClientError", response |-> Some([Error |-> error]), str |-> text]

ErrorEntry(code, message) == Some([Code |-> code, Message |-> message])

IsClientError(e) == e.cls = "ClientError"

\* e.response['Error']['Code'], line 52: a missing key raises KeyError, whose
\* str() is the repr of the key.
ErrorCodeItem(e) ==
    LET r == Get(e.response)
    IN  IF ~IsSome(r.Error)
        THEN [raised |-> TRUE, exc |-> Exc("KeyError", <<"'Error'">>), value |-> <<>>]
        ELSE IF ~IsSome(Get(r.Error).Code)
        THEN [raised |-> TRUE, exc |-> Exc("KeyError", <<"'Code'">>), value |-> <<>>]
        ELSE [raised |-> FALSE, exc |-> Exc("", <<>>), value |-> Get(Get(r.Error).Code)]

\* e.response.get('Error', {}).get('Code', 'Unknown'), line 89
ErrorCodeGet(e) ==
    LET r == Get(e.response)
    IN  IF IsSome(r.Error) /\ IsSome(Get(r.Error).Code)
        THEN Get(Get(r.Error).Code) ELSE <<"Unknown">>

\* e.response.get('Error', {}).get('Message', str(e)), line 90
ErrorMessageGet(e) ==
    LET r == Get(e.response)
    IN  IF IsSome(r.Error) /\ IsSome(Get(r.Error).Message)
        THEN Get(Get(r.Error).Message) ELSE e.str

(***************************************************************************)
(* The responses of lambda_handler.                                        *)
(***************************************************************************)
HtmlHeaders == "Content-Type" :> <<"text/html">>

NoCacheHeaders ==
    ("Cache-Control" :> <<"no-cache, no-store, must-revalidate">>)
    @@ ("Pragma" :> <<"no-cache">>) @@ ("Expires" :> <<"0">>)

\* Mutant of NotFoundResponse: the message does not name the object key.
NotFoundResponse_no_key(cfg) ==
    [statusCode |-> 404,
     headers |-> HtmlHeaders,
     body |-> generate_error_page(
                  <<"File Not Found">>,
                  <<"The requested file was not found. Please contact support.">>,
                  cfg.APP_NAME)]

\* lines 54-62
NotFoundResponse(cfg) ==
    [statusCode |-> 404,
     headers |-> HtmlHeaders,
     body |-> generate_error_page(
                  <<"File Not Found">>,
                  <<"The requested file '">> \o cfg.OBJECT_KEY
                      \o <<"' was not found. Please contact support.">>,
                  cfg.APP_NAME)]

\* Mutant of SuccessResponse: the cache-suppression headers are left out.
SuccessResponse_cacheable(presigned_url, cfg) ==
    [statusCode |-> 200,
     headers |-> HtmlHeaders,
     body |-> generate_download_page(presigned_url, cfg.DOWNLOAD_EXPIRY,
                                      cfg.APP_NAME, cfg.OBJECT_KEY)]

\* lines 76-85
SuccessResponse(presigned_url, cfg) ==
    [statusCode |-> 200,
     headers |-> HtmlHeaders @@ NoCacheHeaders,
     body |-> generate_download_page(presigned_url, cfg.DOWNLOAD_EXPIRY,
                                      cfg.APP_NAME, cfg.OBJECT_KEY)]

\* Mutant of ClientErrorResponse: the title does not carry the error code and
\* the detail is str(e) instead of the error message.
ClientErrorResponse_generic(e, cfg) ==
    [statusCode |-> 500,
     headers |-> HtmlHeaders,
     body |-> generate_error_page(<<"AWS Error">>, e.str, cfg.APP_NAME)]

\* lines 87-96: except ClientError as e
ClientErrorResponse(e, cfg) ==
    [statusCode |-> 500,
     headers |-> HtmlHeaders,
     body |-> generate_error_page(<<"AWS Error: ">> \o ErrorCodeGet(e),
                                  ErrorMessageGet(e), cfg.APP_NAME)]

\* Mutant of SystemErrorResponse: copied from the success branch together
\* with its cache-suppression headers.
SystemErrorResponse_no_cache(e, cfg) ==
    [statusCode |-> 500,
     headers |-> HtmlHeaders @@ NoCacheHeaders,
     body |-> generate_error_page(<<"System Error">>, e.str, cfg.APP_NAME)]

\* Mutant of SystemErrorResponse: the fault's message is withheld.
SystemErrorResponse_opaque(e, cfg) ==
    [statusCode |-> 500,
     headers |-> HtmlHeaders,
     body |-> generate_error_page(<<"System Error">>,
                                  <<"An internal error occurred.">>, cfg.APP_NAME)]

\* lines 97-103: except Exception as e
SystemErrorResponse(e, cfg) ==
    [statusCode |-> 500,
     headers |-> HtmlHeaders,
     body |-> generate_error_page(<<"System Error">>, e.str, cfg.APP_NAME)]

\* The except clauses of the outer try, lines 87-103, applied to an exception
\* raised inside it: the response returned and the line printed.
OuterExcept(e, cfg) ==
    IF IsClientError(e)
    THEN [response |-> ClientErrorResponse(e, cfg),
          log |-> << <<"AWS Error: ">> \o e.str >>]
    ELSE [response |-> SystemErrorResponse(e, cfg),
          log |-> << <<"General Error: ">> \o e.str >>]

(***************************************************************************)
(* Outcomes of the calls the handler makes: a value returned or an         *)
(* exception raised.                                                       *)
(***************************************************************************)
Returned(v) == [raised |-> FALSE, exc |-> Exc("", <<>>), value |-> v]
Raised(e) == [raised |-> TRUE, exc |-> e, value |-> <<>>]

(***************************************************************************)
(* lambda_handler, lines 23-45: from entry to the first store call.        *)
(***************************************************************************)
\* os.environ.get(name, default)
EnvGet(value, default) == IF IsSome(value) THEN Get(value) ELSE default

\* json.dumps(event), line 23, for the part of the event the handler reads.
\* The platform decodes the event from JSON, so json.dumps can encode it.
EventJson(ev) ==
    IF ~ev.isDict THEN <<"null">>
    ELSE IF ~ev.hasQsp THEN <<"{}">>
    ELSE IF ~IsSome(ev.qsp) THEN <<"{\"queryStringParameters\": null}">>
    ELSE IF ~IsSome(Get(ev.qsp).code) THEN <<"{\"queryStringParameters\": {}}">>
    ELSE <<"{\"queryStringParameters\": {\"code\": \"">> \o Get(Get(ev.qsp).code)
         \o <<"\"}}">>

\* Mutant of AuthCodeStep: a request without an authorization code is refused.
AuthCodeStep_required(ev) ==
    IF ~ev.isDict
    THEN [raised |-> TRUE,
          exc |-> Exc("AttributeError",
                      <<"'NoneType' object has no attribute 'get'">>),
          log |-> <<>>]
    ELSE LET query_params == IF ev.hasQsp /\ IsSome(ev.qsp)
                             THEN Get(ev.qsp) ELSE [code |-> None]
             auth_code == query_params.code
         IN  IF IsSome(auth_code) /\ Get(auth_code) # <<>>
             THEN [raised |-> FALSE,
                   exc |-> Exc("", <<>>),
                   log |-> << <<"Authorization code received: ">>
                              \o Prefix(Get(auth_code), 10) \o <<"...">> >>]
             ELSE [raised |-> TRUE,
                   exc |-> Exc("PermissionError", <<"No authorization code">>),
                   log |-> <<>>]

\* lines 33-42: read the optional authorization code and log it.  event.get
\* raises AttributeError when the event is None.
AuthCodeStep(ev) ==
    IF ~ev.isDict
    THEN [raised |-> TRUE,
          exc |-> Exc("AttributeError",
                      <<"'NoneType' object has no attribute 'get'">>),
          log |-> <<>>]
    ELSE LET query_params == IF ev.hasQsp /\ IsSome(ev.qsp)
                             THEN Get(ev.qsp) ELSE [code |-> None]
             auth_code == query_params.code
         IN  [raised |-> FALSE,
              exc |-> Exc("", <<>>),
              log |-> IF IsSome(auth_code) /\ Get(auth_code) # <<>>
                      THEN << <<"Authorization code received: ">>
                              \o Prefix(Get(auth_code), 10) \o <<"...">> >>
                      ELSE << <<"No authorization code - might be direct access">> >>]

\* lines 26-29.  ok = FALSE when int() raises ValueError.
ResolveConfig(en) ==
    LET raw == EnvGet(en.DOWNLOAD_EXPIRY, <<"3", "6", "0", "0">>)
        parsed == PyInt(raw)
    IN  [ok |-> parsed.ok,
         exc |-> Exc("ValueError",
                     <<"invalid literal for int() with base 10: ", "'">>
                     \o raw \o <<"'">>),
         cfg |-> [BUCKET_NAME |-> EnvGet(en.BUCKET_NAME, <<"secure-photo-downloads">>),
                  OBJECT_KEY |-> EnvGet(en.OBJECT_KEY, <<"photos", "/", "photos.zip">>),
                  DOWNLOAD_EXPIRY |-> parsed.val,
                  APP_NAME |-> EnvGet(en.APP_NAME, <<"Secure Photo Downloader">>)]]

HeadObjectCall(cfg) ==
    [op |-> "head_object", Bucket |-> cfg.BUCKET_NAME, Key |-> cfg.OBJECT_KEY,
     ExpiresIn |-> None]

PresignCall(cfg) ==
    [op |-> "generate_presigned_url", Bucket |-> cfg.BUCKET_NAME,
     Key |-> cfg.OBJECT_KEY, ExpiresIn |-> Some(cfg.DOWNLOAD_EXPIRY)]

\* The handler from its entry to the head_object call: where it stands then
\* (propagated an exception, returned a response, or waits for the probe).
Entry(ev, en, client) ==
    LET eventLine == <<"Event received: ">> \o EventJson(ev)
        rc == ResolveConfig(en)
        auth == AuthCodeStep(ev)
        Stop(at, cfg, resp, exc, lines) ==
            [pc |-> at, config |-> cfg, client |-> None, response |-> resp,
             exception |-> exc, calls |-> <<>>, log |-> lines]
    IN  IF ~rc.ok
        THEN Stop("raised", None, None, Some(rc.exc), <<eventLine>>)
        ELSE IF auth.raised
        THEN Stop("returned", Some(rc.cfg),
                  Some(OuterExcept(auth.exc, rc.cfg).response), None,
                  <<eventLine>> \o OuterExcept(auth.exc, rc.cfg).log)
        ELSE IF client.raised
        THEN [Stop("returned", Some(rc.cfg),
                   Some(OuterExcept(client.exc, rc.cfg).response), None,
                   <<eventLine>> \o auth.log \o OuterExcept(client.exc, rc.cfg).log)
              EXCEPT !.client = Some(client)]
        ELSE [pc |-> "probe", config |-> Some(rc.cfg), client |-> Some(client),
              response |-> None,
              exception |-> None, calls |-> <<HeadObjectCall(rc.cfg)>>,
              log |-> <<eventLine>> \o auth.log]

(***************************************************************************)
(* lambda_handler, lines 48-64: the inner try around head_object.          *)
(***************************************************************************)
\* Mutant of head_object_try: the not-found branch logs and has no return, so
\* the handler goes on to the signing.
head_object_try_no_return(outcome, cfg) ==
    LET Fall(lines) == [kind |-> "continue", response |-> None,
                        exc |-> Exc("", <<>>), log |-> lines]
        Raise(e) == [kind |-> "raise", response |-> None, exc |-> e, log |-> <<>>]
    IN  IF ~outcome.raised
        THEN Fall(<< <<"Object ">> \o cfg.OBJECT_KEY \o <<" exists in bucket ">>
                     \o cfg.BUCKET_NAME >>)
        ELSE IF ~IsClientError(outcome.exc)
        THEN Raise(outcome.exc)
        ELSE IF ErrorCodeItem(outcome.exc).raised
        THEN Raise(ErrorCodeItem(outcome.exc).exc)
        ELSE IF ErrorCodeItem(outcome.exc).value = <<"404">>
        THEN Fall(<< <<"Object ">> \o cfg.OBJECT_KEY
                     \o <<" not found in bucket ">> \o cfg.BUCKET_NAME >>)
        ELSE Raise(outcome.exc)

\* What the inner try does with the outcome of head_object: falls through to
\* the signing, returns the 404 response, or raises into the outer try.
head_object_try(outcome, cfg) ==
    LET Fall(lines) == [kind |-> "continue", response |-> None,
                        exc |-> Exc("", <<>>), log |-> lines]
        Return(resp, lines) == [kind |-> "return", response |-> Some(resp),
                                exc |-> Exc("", <<>>), log |-> lines]
        Raise(e) == [kind |-> "raise", response |-> None, exc |-> e, log |-> <<>>]
    IN  IF ~outcome.raised
        THEN Fall(<< <<"Object ">> \o cfg.OBJECT_KEY \o <<" exists in bucket ">>
                     \o cfg.BUCKET_NAME >>)
        ELSE IF ~IsClientError(outcome.exc)
        THEN Raise(outcome.exc)
        ELSE IF ErrorCodeItem(outcome.exc).raised
        THEN Raise(ErrorCodeItem(outcome.exc).exc)
        ELSE IF ErrorCodeItem(outcome.exc).value = <<"404">>
        THEN Return(NotFoundResponse(cfg),
                    << <<"Object ">> \o cfg.OBJECT_KEY
                       \o <<" not found in bucket ">> \o cfg.BUCKET_NAME >>)
        ELSE Raise(outcome.exc)

\* lines 67-85: what follows the outcome of generate_presigned_url
presign_step(outcome, cfg) ==
    IF outcome.raised
    THEN OuterExcept(outcome.exc, cfg)
    ELSE [response |-> SuccessResponse(outcome.value, cfg),
          log |-> << <<"Generated pre-signed URL: ">>
                     \o Prefix(outcome.value, 50) \o <<"...">> >>]

(***************************************************************************)
(* Inputs: events, environments and the outcomes of the calls.             *)
(***************************************************************************)
\* Values of the `code` query parameter: empty, short, longer than the ten
\* symbols the handler logs.
AuthCodes ==
    { <<>>, <<"a", "b", "c">>,
      <<"c", "0", "1", "2", "3", "4", "5", "6", "7", "8", "9", "x">> }

DictEvent(hasQsp, qsp) ==
    [isDict |-> TRUE, hasQsp |-> hasQsp, qsp |-> qsp]

\* Events that differ only in the presence or the value of `code`
CodeEvents ==
    { DictEvent(FALSE, None), DictEvent(TRUE, None),
      DictEvent(TRUE, Some([code |-> None])) }
    \cup { DictEvent(TRUE, Some([code |-> Some(c)])) : c \in AuthCodes }

\* ... and the null event (an invocation with the payload null)
Events ==
    CodeEvents \cup { [isDict |-> FALSE, hasQsp |-> FALSE, qsp |-> None] }

ExpiryValues ==
    { None, Some(<<"3", "6", "0", "0">>), Some(<<"7", "2", "0", "0">>),
      Some(<<"5", "4", "0", "0">>), Some(<<"1", "8", "0", "0">>),
      Some(<<"0">>), Some(<<"-", "6", "0">>), Some(<<"a", "b", "c">>),
      Some(<<" ", "9", "0", "0">>), Some(<<"3", "5", "9", "9">>),
      Some(<<"8", "6", "4", "0", "0">>) }

ObjectKeys ==
    { None, Some(<<"x.zip">>), Some(<<"a", "/", "b", "/", "x.zip">>),
      Some(<<"photos", "/">>), Some(<<"/", "x.zip">>) }

Environs ==
    [BUCKET_NAME : {None, Some(<<"b">>)},
     OBJECT_KEY : ObjectKeys,
     DOWNLOAD_EXPIRY : ExpiryValues,
     APP_NAME : {None, Some(<<"App">>)}]

\* str() of a botocore ClientError
ClientErrorStr(code, message, operation) ==
    <<"An error occurred (">> \o EnvGet(code, <<"Unknown">>)
    \o <<") when calling the ", operation, " operation: ">>
    \o EnvGet(message, <<"Unknown">>)

StoreFault(code, message, operation) ==
    ClientError(ErrorEntry(code, message), ClientErrorStr(code, message, operation))

\* boto3.client('s3'), line 45
ClientOutcomes ==
    { Returned(<<"s3">>),
      Raised(Exc("NoRegionError", <<"You must specify a region.">>)) }

\* head_object, line 49
ProbeOutcomes ==
    { Returned(<<>>),
      Raised(StoreFault(Some(<<"404">>), Some(<<"Not Found">>), "HeadObject")),
      Raised(StoreFault(Some(<<"AccessDenied">>), Some(<<"denied">>), "HeadObject")),
      Raised(StoreFault(Some(<<"403">>), None, "HeadObject")),
      Raised(StoreFault(None, Some(<<"denied">>), "HeadObject")),
      Raised(ClientError(None, ClientErrorStr(None, None, "HeadObject"))),
      Raised(Exc("EndpointConnectionError",
                 <<"Could not connect to the endpoint URL">>)) }

SignedUrls ==
    { <<"https://signed/", "u", "1">>, <<"https://signed/", "u", "2">> }

\* generate_presigned_url, lines 67-71
SignOutcomes ==
    { Returned(u) : u \in SignedUrls }
    \cup { Raised(StoreFault(Some(<<"AccessDenied">>), Some(<<"denied">>),
                             "GeneratePresignedUrl")),
           Raised(StoreFault(Some(<<"404">>), Some(<<"Not Found">>),
                             "GeneratePresignedUrl")),
           Raised(StoreFault(None, Some(<<"denied">>), "GeneratePresignedUrl")),
           Raised(Exc("NoCredentialsError", <<"Unable to locate credentials">>)) }

\* The inputs of the invocations that run side by side
MultiEnvirons ==
    { [BUCKET_NAME |-> None, OBJECT_KEY |-> None, DOWNLOAD_EXPIRY |-> None,
       APP_NAME |-> None],
      [BUCKET_NAME |-> Some(<<"b">>), OBJECT_KEY |-> Some(<<"x.zip">>),
       DOWNLOAD_EXPIRY |-> Some(<<"7", "2", "0", "0">>),
       APP_NAME |-> Some(<<"App">>)] }

MultiEvents == CodeEvents

MultiClientOutcomes == { Returned(<<"s3">>) }

MultiProbeOutcomes ==
    { Returned(<<>>),
      Raised(StoreFault(Some(<<"404">>), Some(<<"Not Found">>), "HeadObject")),
      Raised(StoreFault(Some(<<"AccessDenied">>), Some(<<"denied">>), "HeadObject")) }

MultiSignOutcomes ==
    { Returned(u) : u \in SignedUrls }
    \cup { Raised(StoreFault(Some(<<"AccessDenied">>), Some(<<"denied">>),
                             "GeneratePresignedUrl")) }

(***************************************************************************)
(* The state machine.  pc[i] is where invocation i stands: "idle" (not yet *)
(* invoked), "probe" (waiting for head_object), "sign" (waiting for        *)
(* generate_presigned_url), "returned" (its response is response[i]) or    *)
(* "raised" (lambda_handler propagated exception[i] to its caller).        *)
(***************************************************************************)
Init ==
    /\ pc = [i \in Invocations |-> "idle"]
    /\ event = [i \in Invocations |-> None]
    /\ environ = [i \in Invocations |-> None]
    /\ config = [i \in Invocations |-> None]
    /\ clientRes = [i \in Invocations |-> None]
    /\ probeRes = [i \in Invocations |-> None]
    /\ signRes = [i \in Invocations |-> None]
    /\ calls = [i \in Invocations |-> <<>>]
    /\ response = [i \in Invocations |-> None]
    /\ exception = [i \in Invocations |-> None]
    /\ log = [i \in Invocations |-> <<>>]

\* The platform invokes lambda_handler(event, context); lines 23-49.
Invoke(i, events, environs, clients) ==
    /\ pc[i] = "idle"
    /\ \E ev \in events, en \in environs, cl \in clients :
         LET r == Entry(ev, en, cl)
         IN  /\ pc' = [pc EXCEPT ![i] = r.pc]
             /\ event' = [event EXCEPT ![i] = Some(ev)]
             /\ environ' = [environ EXCEPT ![i] = Some(en)]
             /\ config' = [config EXCEPT ![i] = r.config]
             /\ clientRes' = [clientRes EXCEPT ![i] = r.client]
             /\ calls' = [calls EXCEPT ![i] = r.calls]
             /\ response' = [response EXCEPT ![i] = r.response]
             /\ exception' = [exception EXCEPT ![i] = r.exception]
             /\ log' = [log EXCEPT ![i] = r.log]
    /\ UNCHANGED <<probeRes, signRes>>

\* Mutant of HeadObjectReturn: a probe that raised is tried once more before
\* the fault is handled.
HeadObjectReturn_retry(i, outcomes) ==
    /\ pc[i] = "probe"
    /\ \E o \in outcomes :
         LET cfg == Get(config[i])
             t == head_object_try(o, cfg)
             h == OuterExcept(t.exc, cfg)
             again == o.raised /\ Len(calls[i]) < 2
         IN  /\ probeRes' = [probeRes EXCEPT ![i] = Some(o)]
             /\ pc' = [pc EXCEPT ![i] = IF again THEN "probe"
                                        ELSE IF t.kind = "continue" THEN "sign"
                                        ELSE "returned"]
             /\ calls' = [calls EXCEPT ![i] =
                              IF again THEN Append(@, HeadObjectCall(cfg))
                              ELSE IF t.kind = "continue"
                              THEN Append(@, PresignCall(cfg)) ELSE @]
             /\ response' = [response EXCEPT ![i] =
                                 IF again THEN @
                                 ELSE IF t.kind = "return" THEN t.response
                                 ELSE IF t.kind = "raise" THEN Some(h.response)
                                 ELSE @]
             /\ log' = [log EXCEPT ![i] =
                            IF again THEN @
                            ELSE IF t.kind = "raise" THEN @ \o h.log ELSE @ \o t.log]
    /\ UNCHANGED <<event, environ, config, clientRes, signRes, exception>>

\* head_object returns or raises; lines 49-67 and, on a raise, 87-103.
HeadObjectReturn(i, outcomes) ==
    /\ pc[i] = "probe"
    /\ \E o \in outcomes :
         LET cfg == Get(config[i])
             t == head_object_try(o, cfg)
             h == OuterExcept(t.exc, cfg)
         IN  /\ probeRes' = [probeRes EXCEPT ![i] = Some(o)]
             /\ pc' = [pc EXCEPT ![i] = IF t.kind = "continue" THEN "sign"
                                        ELSE "returned"]
             /\ calls' = [calls EXCEPT ![i] =
                              IF t.kind = "continue"
                              THEN Append(@, PresignCall(cfg)) ELSE @]
             /\ response' = [response EXCEPT ![i] =
                                 IF t.kind = "return" THEN t.response
                                 ELSE IF t.kind = "raise" THEN Some(h.response)
                                 ELSE @]
             /\ log' = [log EXCEPT ![i] =
                            IF t.kind = "raise" THEN @ \o h.log ELSE @ \o t.log]
    /\ UNCHANGED <<event, environ, config, clientRes, signRes, exception>>

\* generate_presigned_url returns or raises; lines 67-85 and 87-103.
GeneratePresignedUrlReturn(i, outcomes) ==
    /\ pc[i] = "sign"
    /\ \E o \in outcomes :
         LET r == presign_step(o, Get(config[i]))
         IN  /\ signRes' = [signRes EXCEPT ![i] = Some(o)]
             /\ pc' = [pc EXCEPT ![i] = "returned"]
             /\ response' = [response EXCEPT ![i] = Some(r.response)]
             /\ log' = [log EXCEPT ![i] = @ \o r.log]
    /\ UNCHANGED <<event, environ, config, clientRes, probeRes, calls, exception>>

\* One invocation, over all the inputs.
Next ==
    \/ Invoke(1, Events, Environs, ClientOutcomes)
    \/ HeadObjectReturn(1, ProbeOutcomes)
    \/ GeneratePresignedUrlReturn(1, SignOutcomes)

Spec == Init /\ [][Next]_vars

\* NumInvocations invocations, interleaved in any order.
NextMulti ==
    \E i \in Invocations :
        \/ Invoke(i, MultiEvents, MultiEnvirons, MultiClientOutcomes)
        \/ HeadObjectReturn(i, MultiProbeOutcomes)
        \/ GeneratePresignedUrlReturn(i, MultiSignOutcomes)

SpecMulti == Init /\ [][NextMulti]_vars

(***************************************************************************)
(* Vocabulary of the claims.                                               *)
(***************************************************************************)
Started(i) == pc[i] # "idle"
Responded(i) == pc[i] = "returned"
Resp(i) == Get(response[i])

ProbeExists(i) == IsSome(probeRes[i]) /\ ~Get(probeRes[i]).raised
ProbeFailed(i) == IsSome(probeRes[i]) /\ Get(probeRes[i]).raised
SignCalled(i) ==
    \E k \in 1..Len(calls[i]) : calls[i][k].op = "generate_presigned_url"
CarriesSignedUrl(i) ==
    IsSome(response[i]) /\ \E u \in SignedUrls : Contains(Resp(i).body, u)

\* The configuration as the environment gives it, with the documented defaults
ConfiguredKey(i) ==
    IF IsSome(Get(environ[i]).OBJECT_KEY) THEN Get(Get(environ[i]).OBJECT_KEY)
    ELSE <<"photos", "/", "photos.zip">>
ConfiguredApp(i) ==
    IF IsSome(Get(environ[i]).APP_NAME) THEN Get(Get(environ[i]).APP_NAME)
    ELSE <<"Secure Photo Downloader">>

\* The slots of the Error Page
IsErrorPage(body) == Contains(body, <<"<title>Download Error - ">>)
HasTitle(body, title) == Contains(body, <<"<h1>">> \o title \o <<"</h1>">>)
HasDetail(body, detail) ==
    Contains(body,
             <<"<div class=\"error-details\"><strong>Error Details:</strong><br>">>
             \o detail \o <<"</div>">>)

\* A ClientError outcome, and the entries of its error response
IsStoreError(o) == o.raised /\ o.exc.cls = "ClientError"
HasCode(o) ==
    /\ IsStoreError(o)
    /\ IsSome(Get(o.exc.response).Error)
    /\ IsSome(Get(Get(o.exc.response).Error).Code)
CodeOf(o) == Get(Get(Get(o.exc.response).Error).Code)
HasMessage(o) ==
    /\ IsStoreError(o)
    /\ IsSome(Get(o.exc.response).Error)
    /\ IsSome(Get(Get(o.exc.response).Error).Message)
MessageOf(o) == Get(Get(Get(o.exc.response).Error).Message)
IsNotFound(o) == HasCode(o) /\ CodeOf(o) = <<"404">>

(***************************************************************************)
(* C1.  Signing presupposes a successful probe.                            *)
(***************************************************************************)
\* C1: in every invocation, generate_presigned_url is called, and a signed
\* URL is embedded in the response, only if head_object of that invocation
\* completed successfully; after a probe that raised (not found or any
\* other fault) sign is never called and the response carries no signed URL.
C1_SignOnlyAfterExists ==
    \A i \in Invocations :
        /\ (SignCalled(i) \/ IsSome(signRes[i]) \/ CarriesSignedUrl(i))
               => ProbeExists(i)
        /\ ProbeFailed(i)
               => (~SignCalled(i) /\ ~IsSome(signRes[i]) /\ ~CarriesSignedUrl(i))

\* A response carrying a signed URL after a successful probe and a sign call
C1_Witness ==
    \E i \in Invocations :
        ProbeExists(i) /\ SignCalled(i) /\ Responded(i) /\ CarriesSignedUrl(i)

(***************************************************************************)
(* C2.  No exception leaves the handler.                                   *)
(***************************************************************************)
WellFormed(r) ==
    /\ r.statusCode \in {200, 404, 500}
    /\ "Content-Type" \in DOMAIN r.headers
    /\ r.body # <<>>

\* C2: whatever fault arises at any step of an invocation (logging the
\* event, resolving the configuration, probe, sign, rendering),
\* lambda_handler returns a response whose statusCode, headers and body are
\* populated; no exception propagates to the caller.
C2_NoExceptionPropagates ==
    \A i \in Invocations :
        /\ pc[i] # "raised"
        /\ exception[i] = None
        /\ Responded(i) => (IsSome(response[i]) /\ WellFormed(Resp(i)))

(***************************************************************************)
(* C3.  The not-found response.                                            *)
(***************************************************************************)
\* C3: whenever head_object raises a ClientError whose error code is '404',
\* the invocation returns status 404, the body is the Error Page with the
\* title "File Not Found" and contains the configured object key, and
\* generate_presigned_url is not called.
C3_NotFound ==
    \A i \in Invocations :
        (IsSome(probeRes[i]) /\ IsNotFound(Get(probeRes[i])))
            => /\ Responded(i)
               /\ Resp(i).statusCode = 404
               /\ IsErrorPage(Resp(i).body)
               /\ HasTitle(Resp(i).body, <<"File Not Found">>)
               /\ Contains(Resp(i).body, ConfiguredKey(i))
               /\ ~SignCalled(i)

\* A not-found probe for a key with several path segments
C3_Witness ==
    \E i \in Invocations :
        /\ IsSome(probeRes[i]) /\ IsNotFound(Get(probeRes[i]))
        /\ ConfiguredKey(i) = <<"a", "/", "b", "/", "x.zip">>
        /\ Responded(i) /\ Resp(i).statusCode = 404

(***************************************************************************)
(* C4.  Store faults of the probe and of the signing.                      *)
(***************************************************************************)
\* The response that depends only on the fault's code and message and on
\* the application name
StoreFaultPage(code, message, app) ==
    [statusCode |-> 500,
     headers |-> "Content-Type" :> <<"text/html">>,
     body |-> generate_error_page(<<"AWS Error: ">> \o code, message, app)]

\* The store fault of invocation i, if any: a ClientError of head_object
\* whose code is not '404', or a ClientError of generate_presigned_url
C4_Fault(i, o) ==
    \/ probeRes[i] = Some(o) /\ HasCode(o) /\ CodeOf(o) # <<"404">>
    \/ signRes[i] = Some(o) /\ HasCode(o)

\* C4: whenever head_object fails with a ClientError whose code is not
\* '404', or generate_presigned_url fails with a ClientError, the response
\* has status 500, its title incorporates the fault's code and its body
\* contains the fault's message unmodified; the response depends only on the
\* code, the message and the application name, so a sign fault and a probe
\* fault with the same code and message produce the same response.
C4_StoreFault ==
    \A i \in Invocations :
        \A o \in ProbeOutcomes \cup SignOutcomes :
            C4_Fault(i, o)
                => /\ Responded(i)
                   /\ Resp(i).statusCode = 500
                   /\ IsErrorPage(Resp(i).body)
                   /\ HasTitle(Resp(i).body, <<"AWS Error: ">> \o CodeOf(o))
                   /\ HasMessage(o)
                          => /\ HasDetail(Resp(i).body, MessageOf(o))
                             /\ Resp(i) = StoreFaultPage(CodeOf(o), MessageOf(o),
                                                         ConfiguredApp(i))

\* A sign fault with code AccessDenied and message "denied", answered 500
C4_Witness ==
    \E i \in Invocations :
        /\ IsSome(signRes[i]) /\ HasCode(Get(signRes[i]))
        /\ CodeOf(Get(signRes[i])) = <<"AccessDenied">>
        /\ HasMessage(Get(signRes[i]))
        /\ Responded(i) /\ Resp(i).statusCode = 500

(***************************************************************************)
(* C5.  The success response.                                              *)
(***************************************************************************)
RedirectDirective(u) ==
    <<"<meta http-equiv=\"refresh\" content=\"3;url=">> \o u \o <<"\">">>
VisibleLink(u) == <<"<a href=\"">> \o u \o <<"\" class=\"download-link\">Download Securely</a>">>

\* C5: whenever head_object succeeds and generate_presigned_url returns a
\* URL, the response has status 200, carries Cache-Control: no-cache,
\* no-store, must-revalidate, Pragma: no-cache and Expires: 0, and its body
\* contains the URL exactly once in the meta-refresh directive and at least
\* once in the visible download link.
C5_Success ==
    \A i \in Invocations :
        (ProbeExists(i) /\ IsSome(signRes[i]) /\ ~Get(signRes[i]).raised)
            => LET u == Get(signRes[i]).value
                   r == Resp(i)
               IN  /\ Responded(i)
                   /\ r.statusCode = 200
                   /\ {"Cache-Control", "Pragma", "Expires"} \subseteq DOMAIN r.headers
                   /\ r.headers["Cache-Control"] = <<"no-cache, no-store, must-revalidate">>
                   /\ r.headers["Pragma"] = <<"no-cache">>
                   /\ r.headers["Expires"] = <<"0">>
                   /\ Count(r.body, RedirectDirective(u)) = 1
                   /\ Count(r.body, <<"<meta http-equiv=\"refresh\" content=\"3;url=">>) = 1
                   /\ Count(r.body, VisibleLink(u)) >= 1

\* A 200 response whose body holds the signed URL twice
C5_Witness ==
    \E i \in Invocations :
        /\ ProbeExists(i) /\ IsSome(signRes[i]) /\ ~Get(signRes[i]).raised
        /\ Responded(i) /\ Resp(i).statusCode = 200
        /\ Count(Resp(i).body, Get(signRes[i]).value) = 2

(***************************************************************************)
(* C6.  Status codes and headers.                                          *)
(***************************************************************************)
CacheHeaders == {"Cache-Control", "Pragma", "Expires"}

\* C6: every response returned by lambda_handler has a statusCode in
\* {200, 404, 500} and the header Content-Type: text/html; each of the
\* headers Cache-Control, Pragma and Expires is present if and only if the
\* statusCode is 200.
C6_StatusAndHeaders ==
    \A i \in Invocations :
        IsSome(response[i])
            => /\ Resp(i).statusCode \in {200, 404, 500}
               /\ "Content-Type" \in DOMAIN Resp(i).headers
               /\ Resp(i).headers["Content-Type"] = <<"text/html">>
               /\ \A h \in CacheHeaders :
                      h \in DOMAIN Resp(i).headers <=> Resp(i).statusCode = 200

\* A System Error response: status 500 without cache-suppression headers
C6_Witness ==
    \E i \in Invocations :
        /\ Responded(i) /\ Resp(i).statusCode = 500
        /\ HasTitle(Resp(i).body, <<"System Error">>)
        /\ DOMAIN Resp(i).headers = {"Content-Type"}

(***************************************************************************)
(* C7.  The catch-all.                                                     *)
(***************************************************************************)
\* The message of the fault, neither a not-found nor a ClientError, that
\* invocation i met inside the try block: event.get on a null event, a
\* failure of boto3.client, a non-ClientError exception of a store call, or
\* the KeyError of line 52 on an error response without 'Error' or 'Code'.
C7_Fault(i, msg) ==
    \/ /\ IsSome(config[i]) /\ ~Get(event[i]).isDict
       /\ msg = <<"'NoneType' object has no attribute 'get'">>
    \/ \E o \in {clientRes[i], probeRes[i], signRes[i]} :
          /\ IsSome(o) /\ Get(o).raised /\ Get(o).exc.cls # "ClientError"
          /\ msg = Get(o).exc.str
    \/ /\ ProbeFailed(i) /\ IsStoreError(Get(probeRes[i]))
       /\ ~IsSome(Get(Get(probeRes[i]).exc.response).Error)
       /\ msg = <<"'Error'">>
    \/ /\ ProbeFailed(i) /\ IsStoreError(Get(probeRes[i]))
       /\ IsSome(Get(Get(probeRes[i]).exc.response).Error)
       /\ ~HasCode(Get(probeRes[i]))
       /\ msg = <<"'Code'">>

FaultMessages ==
    { <<"'NoneType' object has no attribute 'get'">>, <<"'Error'">>, <<"'Code'">> }
    \cup { o.exc.str : o \in ClientOutcomes \cup ProbeOutcomes \cup SignOutcomes }

SameStoreResults(i, j) == probeRes[i] = probeRes[j] /\ signRes[i] = signRes[j]

SameOutcome(i, j) ==
    /\ pc[i] = pc[j]
    /\ calls[i] = calls[j]
    /\ response[i] = response[j]
    /\ exception[i] = exception[j]

HasAuthCode(ev) ==
    /\ ev.isDict /\ ev.hasQsp /\ IsSome(ev.qsp) /\ IsSome(Get(ev.qsp).code)
    /\ Get(Get(ev.qsp).code) # <<>>

\* C8: the authorization code never influences the outcome.  Two invocations
\* whose events differ at most in the presence or the value of the `code`
\* query parameter (queryStringParameters may be absent), with the same
\* configuration and the same store results, make the same store calls in
\* the same order and return identical responses.
C8_CodeIsObservational ==
    \A i, j \in Invocations :
        ( /\ Started(i) /\ Started(j)
          /\ Get(event[i]) \in CodeEvents /\ Get(event[j]) \in CodeEvents
          /\ environ[i] = environ[j]
          /\ SameStoreResults(i, j) )
            => SameOutcome(i, j)

\* One invocation with an authorization code and one without, both answered
\* 200 from the same configuration and store results, logged differently
C8_Witness ==
    \E i, j \in Invocations :
        /\ Responded(i) /\ Responded(j)
        /\ HasAuthCode(Get(event[i])) /\ ~HasAuthCode(Get(event[j]))
        /\ environ[i] = environ[j] /\ SameStoreResults(i, j)
        /\ Resp(i).statusCode = 200
        /\ log[i] # log[j]

\* C9: the handler retains no state across invocations.  In any interleaving
\* of invocations, two invocations with identical events, configuration and
\* store results stand at the same point with identical responses, whatever
\* the other invocations did before or meanwhile.
C9_Stateless ==
    \A i, j \in Invocations :
        ( /\ Started(i) /\ Started(j)
          /\ event[i] = event[j]
          /\ environ[i] = environ[j]
          /\ SameStoreResults(i, j) )
            => SameOutcome(i, j)

\* Two invocations with identical inputs, both answered with an error page
C9_Witness ==
    \E i, j \in Invocations :
        /\ i # j
        /\ Responded(i) /\ Responded(j)
        /\ event[i] = event[j] /\ environ[i] = environ[j]
        /\ SameStoreResults(i, j)
        /\ Resp(i).statusCode = 500

(***************************************************************************)
(* C10.  The expiry.                                                       *)
(***************************************************************************)
\* C10: the expiry passed to generate_presigned_url and displayed on the
\* success page is a positive integer: a DOWNLOAD_EXPIRY <= 0 is refused as a
\* configuration error, so no sign call has ExpiresIn <= 0 and no success
\* response is issued for such a value.
C10_ExpiryPositive ==
    \A i \in Invocations :
        /\ \A k \in 1..Len(calls[i]) :
               calls[i][k].op = "generate_presigned_url"
                   => Get(calls[i][k].ExpiresIn) > 0
        /\ (Responded(i) /\ Resp(i).statusCode = 200)
               => Get(config[i]).DOWNLOAD_EXPIRY > 0

(***************************************************************************)
(* C11.  The hours of the security notice.                                 *)
(***************************************************************************)
\* The first position of symbol x in s (0 if there is none)
IndexOf(s, x) ==
    IF \E k \in 1..Len(s) : s[k] = x
    THEN CHOOSE k \in 1..Len(s) : s[k] = x /\ \A m \in 1..(k - 1) : s[m] # x
    ELSE 0

\* The text the success page shows between "will expire in <strong>" and
\* "</strong> for your security."
ShownExpiry(body) ==
    SubSeq(body,
           IndexOf(body, "<p>This download link will expire in <strong>") + 1,
           IndexOf(body, "</strong> for your security.</p>") - 1)

\* d is the decimal numeral of the integer h
IsNumeralOf(d, h) ==
    /\ d # <<>>
    /\ \A k \in 1..Len(d) : d[k] \in Digit \cup {"-"}
    /\ (Len(d) > 1 /\ d[1] # "-") => d[1] # "0"
    /\ PyInt(d).ok /\ PyInt(d).val = h

\* Whole hours that the model's expiry values can amount to
HourRange == (0 - 2)..30

\* The expiry of invocation i, as the environment gives it
ConfiguredExpirySeconds(i) ==
    IF IsSome(Get(environ[i]).DOWNLOAD_EXPIRY)
    THEN PyInt(Get(Get(environ[i]).DOWNLOAD_EXPIRY)).val
    ELSE 3600

\* C11: the security notice of the success page shows the number of hours h
\* with 3600*h <= expirySeconds < 3600*(h+1) (floor division), followed by
\* "hour" when h is 1 and by "hours" for every other value, 0 included;
\* 3600 gives "1 hour" and 7200 gives "2 hours".
C11_HoursDisplayed ==
    \A i \in Invocations :
        (Responded(i) /\ Resp(i).statusCode = 200)
            => LET e == Get(config[i]).DOWNLOAD_EXPIRY
                   shown == ShownExpiry(Resp(i).body)
               IN  /\ e = ConfiguredExpirySeconds(i)
                   /\ \E h \in HourRange :
                         /\ 3600 * h <= e /\ e < 3600 * (h + 1)
                         /\ \E n \in 1..(Len(shown) - 1) :
                               /\ IsNumeralOf(SubSeq(shown, 1, n), h)
                               /\ SubSeq(shown, n + 1, Len(shown)) =
                                      IF h = 1 THEN <<" hour">>
                                      ELSE <<" hour", "s">>
                   /\ e = 3600 => shown = <<"1", " hour">>
                   /\ e = 7200 => shown = <<"2", " hour", "s">>

\* A success page for an expiry of 1800 seconds, showing "0 hours"
C11_Witness ==
    \E i \in Invocations :
        /\ Responded(i) /\ Resp(i).statusCode = 200
        /\ Get(config[i]).DOWNLOAD_EXPIRY = 1800
        /\ ShownExpiry(Resp(i).body) = <<"0", " hour", "s">>

(***************************************************************************)
(* C12.  The file name of the success page.                                *)
(***************************************************************************)
\* The text the success page shows between "File:</strong> " and the
\* "</div>" that closes the file-info block
ShownFileName(body) ==
    LET start == IndexOf(body, "<div class=\"file-info\"><strong>File:</strong> ")
        rest == SubSeq(body, start + 1, Len(body))
    IN  SubSeq(rest, 1, IndexOf(rest, "</div>") - 1)

\* The part of key after its last '/', the whole key if it has none
AfterLastSlash(key) ==
    IF \E k \in 1..Len(key) : key[k] = "/"
    THEN LET last == CHOOSE k \in 1..Len(key) :
                        key[k] = "/" /\ \A m \in (k + 1)..Len(key) : key[m] # "/"
         IN  SubSeq(key, last + 1, Len(key))
    ELSE key

\* C12: the file name displayed on the success page is the substring of the
\* object key after its final '/' when the key contains '/', and the whole
\* key when it contains none.
C12_FileName ==
    \A i \in Invocations :
        (Responded(i) /\ Resp(i).statusCode = 200)
            => /\ ShownFileName(Resp(i).body) = AfterLastSlash(ConfiguredKey(i))
               /\ \A k \in 1..Len(ShownFileName(Resp(i).body)) :
                      ShownFileName(Resp(i).body)[k] # "/"

\* A success page for the key a/b/x.zip, showing x.zip
C12_Witness ==
    \E i \in Invocations :
        /\ Responded(i) /\ Resp(i).statusCode = 200
        /\ ConfiguredKey(i) = <<"a", "/", "b", "/", "x.zip">>
        /\ ShownFileName(Resp(i).body) = <<"x.zip">>

(***************************************************************************)
(* C13.  No retries.                                                       *)
(***************************************************************************)
CallsOf(i, op) == {k \in 1..Len(calls[i]) : calls[i][k].op = op}
SignFailed(i) == IsSome(signRes[i]) /\ Get(signRes[i]).raised

\* C13: in every invocation head_object is called at most once and
\* generate_presigned_url at most once, the probe precedes the sign, and
\* after a store call failed no further store call is made: the invocation
\* has returned its error response with the failed call as its last call.
C13_NoRetries ==
    \A i \in Invocations :
        /\ Cardinality(CallsOf(i, "head_object")) <= 1
        /\ Cardinality(CallsOf(i, "generate_presigned_url")) <= 1
        /\ \A k \in CallsOf(i, "generate_presigned_url") :
               \E m \in CallsOf(i, "head_object") : m < k
        /\ Len(calls[i]) =
               Cardinality(CallsOf(i, "head_object"))
               + Cardinality(CallsOf(i, "generate_presigned_url"))
        /\ ProbeFailed(i)
               => /\ Responded(i) /\ Resp(i).statusCode \in {404, 500}
                  /\ Len(calls[i]) = 1 /\ calls[i][1].op = "head_object"
        /\ SignFailed(i)
               => /\ Responded(i) /\ Resp(i).statusCode = 500
                  /\ Len(calls[i]) = 2
                  /\ calls[i][2].op = "generate_presigned_url"
        /\ Responded(i) => Len(calls[i]) =
               (IF IsSome(probeRes[i]) THEN 1 ELSE 0)
               + (IF IsSome(signRes[i]) THEN 1 ELSE 0)

\* A sign call that failed after a successful probe, answered 500 after
\* exactly two store calls
C13_Witness ==
    \E i \in Invocations :
        /\ ProbeExists(i) /\ SignFailed(i)
        /\ Responded(i) /\ Resp(i).statusCode = 500
        /\ Len(calls[i]) = 2

=============================================================================
